---- MODULE Spec2Model ----
(***************************************************************************)
(* A model of the anpass fitting pipeline (src/src/lib.rs, src/src/main.rs) *)
(*                                                                         *)
(* Numbers.  The program computes with f64.  The model computes with exact *)
(* rationals <<n, d>> (d > 0, lowest terms), on inputs chosen so that      *)
(* every intermediate value fits the model checker's integers; on such     *)
(* inputs the rational value is the value the program's arithmetic         *)
(* approximates.                                                           *)
(*                                                                         *)
(* Units.  Energies, coefficients, gradients and Hessians are counted in   *)
(* units of 1e-11, so that the threshold THR = 1e-10 of lib.rs:15 is the   *)
(* number 10 and coefficients on both sides of it are representable.       *)
(* Displacements, points and Newton steps are plain numbers.               *)
(*                                                                         *)
(* Indices.  Rust's 0-based row/column j is the model's j + 1.             *)
(***************************************************************************)
EXTENDS Integers, Sequences, FiniteSets, TLC

VARIABLES
    anpass,   \* the Anpass the operation runs on: [disps, energies, exponents, bias]
    coeffs,   \* the coefficient vector handed to the operation
    x,        \* a point: newton's iterate, or the point grad/hess are taken at
    it,       \* newton: number of loop iterations completed
    delta,    \* newton: the step computed by the last iteration
    pc,       \* position of the running operation
    out,      \* what the operation returned, or how it ended
    files,    \* the files the program has created, by name
    text,     \* Display/load: the lines written, not yet read
    ld,       \* load: the parser's local variables
    rn        \* run/main: the energy at the stationary point, the recentred
              \* Anpass and the coefficients of its fit

vars == <<anpass, coeffs, x, it, delta, pc, out, files, text, ld, rn>>

-----------------------------------------------------------------------------
(* Exact rational arithmetic standing for f64 *)

Abs(n) == IF n < 0 THEN -n ELSE n

RECURSIVE Gcd(_, _)
Gcd(a, b) == IF b = 0 THEN a ELSE Gcd(b, a % b)

RNorm(n, d) ==
    LET g == Gcd(Abs(n), Abs(d))
        s == IF d < 0 THEN -1 ELSE 1
    IN  IF g = 0 THEN <<0, 1>> ELSE <<s * (n \div g), s * (d \div g)>>

R(n) == <<n, 1>>
RZero == <<0, 1>>
ROne == <<1, 1>>
RHalf == <<1, 2>>

RNeg(a) == <<-a[1], a[2]>>
RAbs(a) == <<Abs(a[1]), a[2]>>

RAdd(a, b) ==
    LET g == Gcd(a[2], b[2])
    IN  RNorm(a[1] * (b[2] \div g) + b[1] * (a[2] \div g), (a[2] \div g) * b[2])

RSub(a, b) == RAdd(a, RNeg(b))

RMul(a, b) ==
    LET g1 == Gcd(Abs(a[1]), b[2])
        g2 == Gcd(Abs(b[1]), a[2])
    IN  IF a[1] = 0 \/ b[1] = 0 THEN RZero
        ELSE <<(a[1] \div g1) * (b[1] \div g2), (a[2] \div g2) * (b[2] \div g1)>>

\* 1 / a, a # 0
RInv(a) == IF a[1] < 0 THEN <<-a[2], -a[1]>> ELSE <<a[2], a[1]>>

RDiv(a, b) == RMul(a, RInv(b))

RLt(a, b) == a[1] * b[2] < b[1] * a[2]
RLe(a, b) == a[1] * b[2] <= b[1] * a[2]
RSign(a) == IF a[1] < 0 THEN -1 ELSE IF a[1] > 0 THEN 1 ELSE 0

\* a <= num / (e1 * e2), for a bound too small to be written as one rational:
\* n/d <= num/(e1*e2)  <=>  n <= floor(num*d / (e1*e2)), and with d = dh*e1 + dl
\* floor(num*d / (e1*e2)) = floor((num*dh + floor(num*dl / e1)) / e2).
RLeSmall(a, num, e1, e2) ==
    LET dh == a[2] \div e1
        dl == a[2] % e1
    IN  a[1] <= (num * dh + ((num * dl) \div e1)) \div e2

\* f64::powi(a, k), k >= 0.  0^0 = 1.
RECURSIVE RPowNat(_, _)
RPowNat(a, k) == IF k = 0 THEN ROne ELSE RMul(a, RPowNat(a, k - 1))

-----------------------------------------------------------------------------
(* Vectors (Dvec) and matrices (Dmat, row-major sequences of rows) *)

NRows(m) == Len(m)
NCols(m) == IF Len(m) = 0 THEN 0 ELSE Len(m[1])

RECURSIVE SumTo(_, _)
\* f[1] + ... + f[n] over the integers
SumTo(f, n) == IF n = 0 THEN 0 ELSE SumTo(f, n - 1) + f[n]

Column(m, k) == [i \in 1..NRows(m) |-> m[i][k]]

\* The nr x nc matrices over S
Matrices(nr, nc, S) == [1..nr -> [1..nc -> S]]

\* What an unused variable holds
\* Option<Bias>::None, and a file that does not exist
NoBias == [some |-> FALSE, disp |-> <<>>, energy |-> RZero]
NoFile == [exists |-> FALSE, lines |-> <<>>, complete |-> FALSE]
NoAnpass == [disps |-> <<>>, energies |-> <<>>, exponents |-> <<>>, bias |-> NoBias]
NoFiles == [bad |-> NoFile, fort9903 |-> NoFile]
NoLoad == [state |-> "None"]
NoRun == [e |-> RZero, anpass |-> NoAnpass, coeffs |-> <<>>]

-----------------------------------------------------------------------------
(* The polynomial evaluator: Anpass::eval, grad, hess (lib.rs:200-292, 349-365) *)

\* THR = 1e-10, in the units of 1e-11 energies and coefficients are counted in
THR == 10

\* f64::powi(a, k).  A negative k is 1 / a^-k, infinite at a = 0; the model
\* writes that <<1, 0>> and never computes with it.
Powi(a, k) ==
    IF k >= 0 THEN RPowNat(a, k)
    ELSE IF a[1] = 0 THEN <<1, 0>>
    ELSE RInv(RPowNat(a, -k))

\* The running product coj of one term, with a note of whether powi was ever
\* handed a negative exponent
Term(v) == [val |-> v, neg |-> FALSE]
Skipped == [val |-> RZero, neg |-> FALSE]

\* coj *= a.powi(k)
TimesPowi(t, a, k) == [val |-> RMul(t.val, Powi(a, k)), neg |-> t.neg \/ k < 0]

\* for k in 0..nvbl { if k is not i (nor l) && ekj != 0 { coj *= x[k].powi(ekj) } }
RECURSIVE OtherVars(_, _, _, _, _, _)
OtherVars(exps, xx, j, skip, k, t) ==
    IF k > NRows(exps) THEN t
    ELSE OtherVars(exps, xx, j, skip, k + 1,
                   IF k \notin skip /\ exps[k][j] # 0
                   THEN TimesPowi(t, xx[k], exps[k][j])
                   ELSE t)

\* sum += coj, over the terms ts[1..n]
RECURSIVE SumTerms(_, _)
SumTerms(ts, n) ==
    IF n = 0 THEN Skipped
    ELSE LET s == SumTerms(ts, n - 1)
         IN  [val |-> RAdd(s.val, ts[n].val), neg |-> s.neg \/ ts[n].neg]

\* |coj| < THR
BelowTHR(coj) == RLt(RAbs(coj), R(THR))

\* The body of grad's loop over j (lib.rs:206-220)
GradTermNoSkip(exps, xx, cs, i, j) ==
    LET fij == exps[i][j]
        coj == RMul(cs[j], R(fij))
    IN  OtherVars(exps, xx, j, {i}, 1,
                  IF fij # 1 THEN TimesPowi(Term(coj), xx[i], fij - 1) ELSE Term(coj))

GradTerm(exps, xx, cs, i, j) ==
    LET fij == exps[i][j]
        coj == RMul(cs[j], R(fij))
    IN  IF BelowTHR(coj) THEN Skipped
        ELSE OtherVars(exps, xx, j, {i}, 1,
                       IF fij # 1 THEN TimesPowi(Term(coj), xx[i], fij - 1) ELSE Term(coj))

\* grad[i] = sum (lib.rs:203-223); .val is the Dvec returned
GradSums(exps, xx, cs) ==
    [i \in 1..NRows(exps) |->
        SumTerms([j \in 1..NCols(exps) |-> GradTerm(exps, xx, cs, i, j)], NCols(exps))]

\* The vector of the sums, and whether any of them evaluated a negative power
VectorOf(g) ==
    [val |-> [i \in 1..Len(g) |-> g[i].val], neg |-> \E i \in 1..Len(g) : g[i].neg]

grad(a, xx, cs) == VectorOf(GradSums(a.exponents, xx, cs))

\* The off-diagonal branch of hess's loop over j (lib.rs:236-261), i # l
HessOffTerm(exps, xx, cs, i, l, j) ==
    LET eij == exps[i][j]
        elj == exps[l][j]
        coj == RMul(cs[j], R(eij * elj))
        t1 == IF eij # 1 THEN TimesPowi(Term(coj), xx[i], eij - 1) ELSE Term(coj)
        t2 == IF elj # 1 THEN TimesPowi(t1, xx[l], elj - 1) ELSE t1
    IN  IF BelowTHR(coj) THEN Skipped
        ELSE OtherVars(exps, xx, j, {i, l}, 1, t2)

\* The diagonal branch (lib.rs:266-286)
HessDiagTerm(exps, xx, cs, i, j) ==
    LET eij == exps[i][j]
        coj == RMul(cs[j], R(eij * (eij - 1)))
    IN  IF BelowTHR(coj) THEN Skipped
        ELSE OtherVars(exps, xx, j, {i}, 1,
                       IF eij # 2 THEN TimesPowi(Term(coj), xx[i], eij - 2) ELSE Term(coj))

\* sum of the (i, l) entry, l <= i (lib.rs:232-288)
HessLower(exps, xx, cs, i, l) ==
    LET nunk == NCols(exps)
    IN  IF i # l
        THEN SumTerms([j \in 1..nunk |-> HessOffTerm(exps, xx, cs, i, l, j)], nunk)
        ELSE SumTerms([j \in 1..nunk |-> HessDiagTerm(exps, xx, cs, i, j)], nunk)

\* hess[(i, l)] = sum; hess[(l, i)] = sum, on a matrix of zeros
HessEntryNoMirror(exps, xx, cs, i, l) ==
    IF l <= i THEN HessLower(exps, xx, cs, i, l) ELSE Skipped

HessEntry(exps, xx, cs, i, l) ==
    IF l <= i THEN HessLower(exps, xx, cs, i, l) ELSE HessLower(exps, xx, cs, l, i)

HessSums(exps, xx, cs) ==
    [i \in 1..NRows(exps) |-> [l \in 1..NRows(exps) |-> HessEntry(exps, xx, cs, i, l)]]

MatrixOf(h) ==
    [val |-> [i \in 1..Len(h) |-> [l \in 1..Len(h) |-> h[i][l].val]],
     neg |-> \E i, l \in 1..Len(h) : h[i][l].neg]

hess(a, xx, cs) == MatrixOf(HessSums(a.exponents, xx, cs))

\* One pass of eval's loop over the coefficients (lib.rs:351-362)
EvalTerm(exps, xx, cs, k) ==
    IF BelowTHR(cs[k]) THEN Skipped
    ELSE OtherVars(exps, xx, k, {}, 1, Term(cs[k]))

eval(a, xx, cs) ==
    SumTerms([k \in 1..Len(cs) |-> EvalTerm(a.exponents, xx, cs, k)], Len(cs)).val

-----------------------------------------------------------------------------
(* Specification SpecDeriv: grad, then hess, at a point (as newton calls them) *)

MaxDeg == 3
DerivCoefs == {R(-20), R(4), <<25, 2>>}
DerivPoints == {R(-1), RZero, RHalf, R(2)}

InitDeriv ==
    /\ \E e \in Matrices(2, 2, 0..MaxDeg) : anpass = [NoAnpass EXCEPT !.exponents = e]
    /\ coeffs \in [1..2 -> DerivCoefs]
    /\ x \in [1..2 -> DerivPoints]
    /\ it = 0 /\ delta = <<>>
    /\ pc = "grad" /\ out = [kind |-> "none"]
    /\ files = NoFiles /\ text = <<>> /\ ld = NoLoad /\ rn = NoRun

Grad ==
    /\ pc = "grad"
    /\ pc' = "hess"
    /\ out' = [kind |-> "grad", grad |-> grad(anpass, x, coeffs)]
    /\ UNCHANGED <<anpass, coeffs, x, it, delta, files, text, ld, rn>>

Hess ==
    /\ pc = "hess"
    /\ pc' = "done"
    /\ out' = [kind |-> "hess", grad |-> out.grad, hess |-> hess(anpass, x, coeffs)]
    /\ UNCHANGED <<anpass, coeffs, x, it, delta, files, text, ld, rn>>

NextDeriv == Grad \/ Hess

SpecDeriv == InitDeriv /\ [][NextDeriv]_vars

(* The analytic derivatives, by differentiating each monomial *)

Monomial(exps, cs, k) == [c |-> cs[k], e |-> Column(exps, k)]

\* d/dx_i of c * prod_j x_j^e_j
Differentiate(t, i) ==
    IF t.e[i] = 0 THEN [c |-> RZero, e |-> t.e]
    ELSE [c |-> RMul(t.c, R(t.e[i])), e |-> [t.e EXCEPT ![i] = @ - 1]]

RECURSIVE PowerProduct(_, _, _)
PowerProduct(e, xx, j) ==
    IF j = 0 THEN ROne ELSE RMul(RPowNat(xx[j], e[j]), PowerProduct(e, xx, j - 1))

ValueAt(t, xx) == RMul(t.c, PowerProduct(t.e, xx, Len(xx)))

RECURSIVE SumValues(_, _, _)
SumValues(ts, xx, n) ==
    IF n = 0 THEN RZero ELSE RAdd(SumValues(ts, xx, n - 1), ValueAt(ts[n], xx))

\* A term whose differentiated coefficient is below THR in magnitude counts as 0
Thresholded(t) == IF BelowTHR(t.c) THEN [c |-> RZero, e |-> t.e] ELSE t

AnalyticGrad(exps, cs, xx, i) ==
    SumValues([k \in 1..NCols(exps) |-> Differentiate(Monomial(exps, cs, k), i)],
              xx, NCols(exps))

AnalyticHess(exps, cs, xx, i, l) ==
    SumValues([k \in 1..NCols(exps) |->
                  Differentiate(Differentiate(Monomial(exps, cs, k), i), l)],
              xx, NCols(exps))

ThresholdedGrad(exps, cs, xx, i) ==
    SumValues([k \in 1..NCols(exps) |->
                  Thresholded(Differentiate(Monomial(exps, cs, k), i))],
              xx, NCols(exps))

ThresholdedHess(exps, cs, xx, i, l) ==
    SumValues([k \in 1..NCols(exps) |->
                  Thresholded(Differentiate(Differentiate(Monomial(exps, cs, k), i), l))],
              xx, NCols(exps))

\* C4 as stated: grad returns the analytic first partial derivatives and hess the
\* symmetric matrix of analytic second partial derivatives, at every point, and
\* no power with a negative exponent is evaluated.
C4_AnalyticDerivatives ==
    LET e == anpass.exponents
        n == NRows(e)
    IN  /\ pc \in {"hess", "done"} =>
            /\ \A i \in 1..n : out.grad.val[i] = AnalyticGrad(e, coeffs, x, i)
            /\ ~out.grad.neg
        /\ pc = "done" =>
            /\ \A i, l \in 1..n : out.hess.val[i][l] = AnalyticHess(e, coeffs, x, i, l)
            /\ \A i, l \in 1..n : out.hess.val[i][l] = out.hess.val[l][i]
            /\ ~out.hess.neg

\* C4 as amended: the same, over the terms whose differentiated coefficient
\* (c*e_i for grad; c*e_i*e_l, or c*e_i*(e_i - 1) on the diagonal, for hess) is at
\* least THR = 1e-10 in magnitude; the terms below THR are left out of the sum.
C4_ThresholdedDerivatives ==
    LET e == anpass.exponents
        n == NRows(e)
    IN  /\ pc \in {"hess", "done"} =>
            /\ \A i \in 1..n : out.grad.val[i] = ThresholdedGrad(e, coeffs, x, i)
            /\ ~out.grad.neg
        /\ pc = "done" =>
            /\ \A i, l \in 1..n : out.hess.val[i][l] = ThresholdedHess(e, coeffs, x, i, l)
            /\ \A i, l \in 1..n : out.hess.val[i][l] = out.hess.val[l][i]
            /\ ~out.hess.neg

\* grad and hess have run at a point with a zero component, on a basis with a
\* zero exponent, and returned a non-zero gradient and a non-zero mixed derivative
C4_Witness ==
    /\ pc = "done"
    /\ x[1] = RZero /\ x[2] # RZero
    /\ \E k \in 1..2 : anpass.exponents[1][k] = 0
    /\ \E k \in 1..2 : anpass.exponents[1][k] = 1 /\ anpass.exponents[2][k] = 2
    /\ out.grad.val[1] # RZero
    /\ out.hess.val[1][2] # RZero
    /\ out.hess.val[2][2] # RZero

-----------------------------------------------------------------------------
(* impl Display for Anpass, lib.rs:47-72: the text written, line by line *)

\* round(a / b) for b > 0
RoundDiv(a, b) == (2 * a + b) \div (2 * b)

\* v printed with a fixed number of decimals, pow10 = 10^decimals: the number
\* the digits written denote, from the whole part and the rounded fraction
Decimals(v, pow10) ==
    RAdd(R(v[1] \div v[2]), RNorm(RoundDiv((v[1] % v[2]) * pow10, v[2]), pow10))

\* "{:12.8}": 8 decimals, padded on the left to 12 characters.  A value of 12
\* or more characters (>= 100, or <= -10) is written with no blank before it.
\* Displacements are plain numbers.
FormatDisp(v) ==
    LET r == Decimals(v, 100000000)
    IN  [kind |-> "dec", val |-> r,
         glued |-> (r[1] \div r[2]) >= 100 \/ r[1] <= -10 * r[2]]

\* "{:20.12}": 12 decimals, which is a tenth of the unit energies are counted in
FormatEnergy(v) == [kind |-> "dec", val |-> Decimals(v, 10), glued |-> FALSE]

\* "{:5}" of an i32 (in the model's range always shorter than 5 characters)
FormatInt(n) == [kind |-> "int", val |-> R(n), glued |-> FALSE]

DataLine(toks) == [kind |-> "data", toks |-> toks]
TextLine(str) == [kind |-> "text", s |-> str]

\* for col in 0..cols { write!(f, "{:12.8}", self.disps[(row, col)]) }
DispFields(a, row) == [col \in 1..NCols(a.disps) |-> FormatDisp(a.disps[row][col])]

\* The displacement rows (lib.rs:50-55).  self.energies[row] is an index out of
\* bounds, a panic, when there are fewer energies than rows; what was written
\* before stays written.
RECURSIVE DisplayRows(_, _, _)
DisplayRows(a, row, lines) ==
    IF row > NRows(a.disps) THEN [ok |-> TRUE, lines |-> lines]
    ELSE IF row > Len(a.energies)
         THEN [ok |-> FALSE, lines |-> Append(lines, DataLine(DispFields(a, row)))]
    ELSE DisplayRows(a, row + 1,
                     Append(lines, DataLine(DispFields(a, row)
                                            \o <<FormatEnergy(a.energies[row])>>)))

\* One row of exponents, a new line before every 16th column (lib.rs:61-67)
RECURSIVE ExponentRow(_, _, _, _, _)
ExponentRow(a, row, col, cur, lines) ==
    IF col > NCols(a.exponents) THEN Append(lines, DataLine(cur))
    ELSE IF col > 1 /\ (col - 1) % 16 = 0
         THEN ExponentRow(a, row, col + 1, <<FormatInt(a.exponents[row][col])>>,
                          Append(lines, DataLine(cur)))
    ELSE ExponentRow(a, row, col + 1, Append(cur, FormatInt(a.exponents[row][col])), lines)

RECURSIVE ExponentRows(_, _, _)
ExponentRows(a, row, lines) ==
    IF row > NRows(a.exponents) THEN lines
    ELSE ExponentRows(a, row + 1, ExponentRow(a, row, 1, <<>>, lines))

\* What follows the displacement rows (lib.rs:56-70)
DisplayRest(a, rows) ==
    IF ~rows.ok THEN rows
    ELSE [ok |-> TRUE,
          lines |-> ExponentRows(a, 1,
                        rows.lines \o <<TextLine("UNKNOWNS"),
                                        DataLine(<<FormatInt(NCols(a.exponents))>>),
                                        TextLine("FUNCTION")>>)
                    \o <<TextLine("END OF DATA")>>]

\* fmt: [ok, lines]; ok = FALSE when it panicked part way
Display(a) == DisplayRest(a, DisplayRows(a, 1, <<>>))

-----------------------------------------------------------------------------
(* Anpass::newton and characterize, lib.rs:295-346 *)

MAXIT == 100

RECURSIVE SumR(_, _)
\* f[1] + ... + f[n] over the rationals
SumR(f, n) == IF n = 0 THEN RZero ELSE RAdd(SumR(f, n - 1), f[n])

Dot(u, v) == SumR([i \in 1..Len(u) |-> RMul(u[i], v[i])], Len(u))

Identity(n) == [i \in 1..n |-> [j \in 1..n |-> IF i = j THEN ROne ELSE RZero]]

\* na::Cholesky::new reads the lower triangle only
LowerSymmetric(m) ==
    [i \in 1..Len(m) |-> [j \in 1..Len(m) |-> IF j <= i THEN m[i][j] ELSE m[j][i]]]

\* Elimination on [m | v], pivot k.  The k-th pivot is the number whose square
\* root the Cholesky factorization takes: it fails (None) at the first pivot
\* that is not positive.  When all are positive v ends as the inverse.
RECURSIVE Eliminate(_, _, _)
Eliminate(m, v, k) ==
    IF k > Len(m) THEN [ok |-> TRUE, inv |-> v]
    ELSE IF ~RLt(RZero, m[k][k]) THEN [ok |-> FALSE, inv |-> <<>>]
    ELSE LET n == Len(m)
             mk == [j \in 1..n |-> RDiv(m[k][j], m[k][k])]
             vk == [j \in 1..n |-> RDiv(v[k][j], m[k][k])]
         IN  Eliminate(
                 [r \in 1..n |-> IF r = k THEN mk
                                 ELSE [j \in 1..n |-> RSub(m[r][j], RMul(m[r][k], mk[j]))]],
                 [r \in 1..n |-> IF r = k THEN vk
                                 ELSE [j \in 1..n |-> RSub(v[r][j], RMul(m[r][k], vk[j]))]],
                 k + 1)

\* na::Cholesky::new(m): Some (ok) iff m is positive definite; .inv is what
\* chol.inverse() then returns
CholeskyNew(m) == Eliminate(LowerSymmetric(m), Identity(Len(m)), 1)

\* The signs of the eigenvalues of a symmetric matrix of 1 or 2 rows, summed:
\* the fold of lib.rs:299-307 over hess.eigenvalues()
EigenSignSum(h) ==
    IF Len(h) = 1 THEN RSign(h[1][1])
    ELSE LET det == RSub(RMul(h[1][1], h[2][2]), RMul(h[1][2], h[2][1]))
             tr == RAdd(h[1][1], h[2][2])
         IN  IF RSign(det) > 0 THEN 2 * RSign(tr)
             ELSE IF RSign(det) < 0 THEN 0
             ELSE RSign(tr)

characterize(h) ==
    LET prod == EigenSignSum(h)
        l == Len(h)
    IN  IF prod = -l THEN "Max"
        ELSE IF prod = l THEN "Min"
        ELSE "Stat"

\* *x <= 1.1e-8 = 11 / (100000 * 10000)
WithinTolAbs(d) == RLeSmall(RAbs(d), 11, 100000, 10000)
WithinTol(d) == RLeSmall(d, 11, 100000, 10000)

\* if delta.iter().all(|x| *x <= 1.1e-8) { return ... } x -= delta (lib.rs:340-343)
ConvergedAbs(d) == \A i \in 1..Len(d) : WithinTolAbs(d[i])
Converged(d) == \A i \in 1..Len(d) : WithinTol(d[i])

TestDelta(h, d) ==
    [kind |-> IF Converged(d) THEN "converged" ELSE "step", delta |-> d, hess |-> h]

\* let delta = 0.5 * inv * grad (lib.rs:338-339)
DeltaOf(inv, g) == [i \in 1..Len(g) |-> Dot([j \in 1..Len(g) |-> RMul(RHalf, inv[i][j])], g)]

\* match na::Cholesky::new(hess.clone()) (lib.rs:330-337)
MatchCholesky(g, h, chol) ==
    IF ~chol.ok THEN [kind |-> "nochol", delta |-> <<>>, hess |-> h]
    ELSE TestDelta(h, DeltaOf(chol.inv, g))

WithHessian(g, h) == MatchCholesky(g, h, CholeskyNew(h))

\* The body of newton's loop at x = xx (lib.rs:328-343)
NewtonBody(a, cs, xx) == WithHessian(grad(a, xx, cs).val, hess(a, xx, cs).val)

\* x -= delta
Minus(xx, d) == [i \in 1..Len(xx) |-> RSub(xx[i], d[i])]

\* File::create("anpass.bad"); write!(f, "{}", self); panic!(...)
\* (lib.rs:333-335): the file, and the message the thread panics with
Dumped(w) ==
    [file |-> [exists |-> TRUE, lines |-> w.lines, complete |-> w.ok],
     msg |-> IF w.ok THEN "Cholesky decomposition failed in newton"
             ELSE "index out of bounds"]

DumpBad(a) == Dumped(Display(a))

\* newton as a whole, from iterate xx with n iterations done
Panicked(dump) == [kind |-> "panic", msg |-> dump.msg, bad |-> dump.file]

RECURSIVE NewtonLoop(_, _, _, _)
NewtonNext(a, cs, xx, n, b) ==
    IF b.kind = "nochol" THEN Panicked(DumpBad(a))
    ELSE IF b.kind = "converged"
    THEN [kind |-> "point", x |-> xx, stat |-> characterize(b.hess), bad |-> NoFile]
    ELSE NewtonLoop(a, cs, Minus(xx, b.delta), n + 1)

NewtonLoop(a, cs, xx, n) ==
    IF n = MAXIT THEN [kind |-> "panic", msg |-> "too many Newton iterations", bad |-> NoFile]
    ELSE NewtonNext(a, cs, xx, n, NewtonBody(a, cs, xx))

newton(a, cs) ==
    NewtonLoop(a, cs, [i \in 1..NRows(a.exponents) |-> RZero], 0)

-----------------------------------------------------------------------------
(* Specification SpecNewton: newton, one loop iteration per step *)

\* Coefficients -1e-10, 0, 1e-10
CoefRange == {R(-10), RZero, R(10)}

\* b*x + a*x^2
Quad1Exps == << <<1, 2>> >>
\* a*x^2 + c*x*y + b*y^2 + d*x + e*y
Quad2Exps == << <<2, 1, 0, 1, 0>>,
                <<0, 1, 2, 0, 1>> >>
\* 40x + 10x^2 - 60x^3 - 30x^4 - 40y + 10y^2 + 60y^3 - 30y^4, on which the
\* iteration alternates between (0, 0) and (-1, 1)
QuarticExps == << <<1, 2, 3, 4, 0, 0, 0, 0>>,
                  <<0, 0, 0, 0, 1, 2, 3, 4>> >>
QuarticCoefs == <<R(40), R(10), R(-60), R(-30), R(-40), R(10), R(60), R(-30)>>

Polynomials ==
    {<<Quad1Exps, cs>> : cs \in [1..2 -> CoefRange]}
        \cup {<<Quad2Exps, cs>> : cs \in [1..5 -> CoefRange]}
        \cup {<<QuarticExps, QuarticCoefs>>}

\* One displacement row, with its energy or (a template) without
OneRow(nvbl, withEnergy) ==
    [disps |-> << [i \in 1..nvbl |-> <<i, 4>>] >>,
     energies |-> IF withEnergy THEN <<R(50)>> ELSE <<>>]

InitNewton ==
    /\ \E p \in Polynomials, withEnergy \in BOOLEAN :
         /\ anpass = [disps |-> OneRow(NRows(p[1]), withEnergy).disps,
                      energies |-> OneRow(NRows(p[1]), withEnergy).energies,
                      exponents |-> p[1],
                      bias |-> NoBias]
         /\ coeffs = p[2]
         /\ x = [i \in 1..NRows(p[1]) |-> RZero]
    /\ it = 0 /\ delta = <<>>
    /\ pc = "loop" /\ out = [kind |-> "none"]
    /\ files = NoFiles /\ text = <<>> /\ ld = NoLoad /\ rn = NoRun

\* Cholesky::new(hess) is None: dump and panic
CholFail(b, dump) ==
    /\ b.kind = "nochol"
    /\ files' = [files EXCEPT !.bad = dump.file]
    /\ pc' = "panicked"
    /\ out' = [kind |-> "panic", msg |-> dump.msg]
    /\ UNCHANGED <<anpass, coeffs, x, it, delta, text, ld, rn>>

NewtonCholFail ==
    /\ pc = "loop" /\ it < MAXIT
    /\ CholFail(NewtonBody(anpass, coeffs, x), DumpBad(anpass))

\* every component of delta is <= 1.1e-8: return (x, characterize(hess))
Converge(b) ==
    /\ b.kind = "converged"
    /\ delta' = b.delta
    /\ out' = [kind |-> "point", x |-> x, stat |-> characterize(b.hess)]
    /\ pc' = "returned"
    /\ UNCHANGED <<anpass, coeffs, x, it, files, text, ld, rn>>

NewtonConverge ==
    /\ pc = "loop" /\ it < MAXIT
    /\ Converge(NewtonBody(anpass, coeffs, x))

\* x -= delta, and round the loop
Step(b) ==
    /\ b.kind = "step"
    /\ delta' = b.delta
    /\ x' = Minus(x, b.delta)
    /\ it' = it + 1
    /\ UNCHANGED <<anpass, coeffs, pc, out, files, text, ld, rn>>

NewtonStep ==
    /\ pc = "loop" /\ it < MAXIT
    /\ Step(NewtonBody(anpass, coeffs, x))

\* the loop ran MAXIT times: panic!("too many Newton iterations")
NewtonTooManyReturns ==
    /\ pc = "loop" /\ it = MAXIT
    /\ pc' = "returned"
    /\ out' = [kind |-> "point", x |-> x, stat |-> "Stat"]
    /\ UNCHANGED <<anpass, coeffs, x, it, delta, files, text, ld, rn>>

NewtonTooMany ==
    /\ pc = "loop" /\ it = MAXIT
    /\ pc' = "panicked"
    /\ out' = [kind |-> "panic", msg |-> "too many Newton iterations"]
    /\ UNCHANGED <<anpass, coeffs, x, it, delta, files, text, ld, rn>>

NextNewton == NewtonCholFail \/ NewtonConverge \/ NewtonStep \/ NewtonTooMany

SpecNewton == InitNewton /\ [][NextNewton]_vars

(* Properties of newton *)

\* The polynomial is quadratic: its Hessian is the same at every point
Quadratic == anpass.exponents \in {Quad1Exps, Quad2Exps}
Origin == [i \in 1..NRows(anpass.exponents) |-> RZero]
ConstantHessian == hess(anpass, Origin, coeffs).val

\* Sylvester's criterion, for 1 or 2 variables
PositiveDefinite(h) ==
    /\ RSign(h[1][1]) > 0
    /\ Len(h) = 2 => RSign(RSub(RMul(h[1][1], h[2][2]), RMul(h[1][2], h[2][1]))) > 0
Negated(h) == [i \in 1..Len(h) |-> [j \in 1..Len(h) |-> RNeg(h[i][j])]]
StrictlyConvex == Quadratic /\ PositiveDefinite(ConstantHessian)
StrictlyConcave == Quadratic /\ PositiveDefinite(Negated(ConstantHessian))
SaddleShaped ==
    /\ Quadratic /\ Len(ConstantHessian) = 2
    /\ RSign(RSub(RMul(ConstantHessian[1][1], ConstantHessian[2][2]),
                  RMul(ConstantHessian[1][2], ConstantHessian[2][1]))) < 0

Ended == pc \in {"returned", "panicked"}

\* C3: newton classifies the stationary point it converges to: a strictly convex
\* polynomial gives its minimum and Min, a strictly concave one gives Max, a
\* saddle-shaped one gives Stat.
C3_ClassifiesByCurvature ==
    Ended =>
        /\ StrictlyConvex  => out.kind = "point" /\ out.stat = "Min"
        /\ StrictlyConcave => out.kind = "point" /\ out.stat = "Max"
        /\ SaddleShaped    => out.kind = "point" /\ out.stat = "Stat"

\* C5: newton ends within 100 iterations, in exactly one of: a point returned,
\* an abort on a failed factorization, the abort "too many Newton iterations"
\* after 100 iterations without convergence; an abort returns no point.
C5_Outcome ==
    /\ it <= MAXIT
    /\ pc \in {"loop", "returned", "panicked"}
    /\ pc = "loop" => out.kind = "none"
    /\ pc = "returned" => out.kind = "point" /\ it < MAXIT
    /\ pc = "panicked" =>
          /\ out.kind = "panic"
          /\ DOMAIN out = {"kind", "msg"}
          /\ \/ /\ out.msg = "too many Newton iterations"
                /\ it = MAXIT
                /\ ~files.bad.exists
             \/ /\ out.msg # "too many Newton iterations"
                /\ it < MAXIT
                /\ ~PositiveDefinite(hess(anpass, x, coeffs).val)

\* Every pass round the loop ends newton or counts one more iteration
C5_Counts ==
    pc = "loop" =>
        \/ pc' \in {"returned", "panicked"} /\ it' = it
        \/ pc' = "loop" /\ it' = it + 1 /\ it' <= MAXIT

\* ... and the loop never stands still: the cap is reached, or the body takes
\* one of its three branches
C5_Ends ==
    pc = "loop" =>
        \/ it = MAXIT
        \/ NewtonBody(anpass, coeffs, x).kind \in {"nochol", "converged", "step"}

\* C5: newton ends after at most 100 iterations in exactly one of its three
\* outcomes, and an abort returns no point.
C5_ThreeOutcomes == [](C5_Outcome /\ C5_Ends) /\ [][C5_Counts]_vars

C5_Witness ==
    /\ pc = "panicked" /\ out.msg = "too many Newton iterations" /\ it = MAXIT

\* C6: when the Hessian is not positive definite newton writes the whole of the
\* Anpass (displacement rows with their energies, then the basis) to anpass.bad
\* and then ends with the Cholesky error, whatever the dataset.
C6_DumpThenCholeskyError ==
    (pc = "panicked" /\ it < MAXIT) =>
        /\ files.bad.exists
        /\ files.bad.complete
        /\ Len(files.bad.lines) = NRows(anpass.disps) + NRows(anpass.exponents) + 4
        /\ \A r \in 1..NRows(anpass.disps) :
               Len(files.bad.lines[r].toks) = NCols(anpass.disps) + 1
        /\ out.msg = "Cholesky decomposition failed in newton"

\* C10: the convergence test is one-sided and made before the update: when
\* every component of delta = 0.5 * H^-1 * grad is <= 1.1e-8 newton returns the
\* x it computed delta at; otherwise x becomes x - delta and the loop goes on.
HessTimes(h, d) == [i \in 1..Len(d) |-> Dot(h[i], d)]
TwiceDelta(d) == [i \in 1..Len(d) |-> RMul(R(2), d[i])]

C10_OneSidedTest ==
    [][ (pc = "loop" /\ it < MAXIT /\ PositiveDefinite(hess(anpass, x, coeffs).val)) =>
          /\ HessTimes(hess(anpass, x, coeffs).val, TwiceDelta(delta'))
                 = grad(anpass, x, coeffs).val
          /\ IF \A i \in 1..Len(delta') : WithinTol(delta'[i])
             THEN pc' = "returned" /\ out'.kind = "point" /\ out'.x = x /\ x' = x
             ELSE pc' = "loop" /\ x' = Minus(x, delta') /\ it' = it + 1
      ]_vars

\* newton returned at a step all of whose components are negative and far
\* larger than the tolerance in magnitude
C10_Witness ==
    /\ pc = "returned"
    /\ \A i \in 1..Len(delta) : RLe(delta[i], <<-1, 4>>)
    /\ out.x = x
    /\ Len(delta) = 2

-----------------------------------------------------------------------------
(* Anpass::make9903, lib.rs:384-406 *)

\* FAC = 4.359813653 in units of 1e-9, as base-10000 digits (43|5981|3653)
FAC == <<43, 5981, 3653>>

\* p * FAC for a rational p = n/d: sign, the base-10000 digits of |n| * FAC
\* (in units of 1e-9) and the denominator d
TimesFAC(p) ==
    LET m == Abs(p[1])
        l0 == m * FAC[3]
        l1 == m * FAC[2] + (l0 \div 10000)
        l2 == m * FAC[1] + (l1 \div 10000)
    IN  [sign |-> RSign(p), digits |-> <<l2, l1 % 10000, l0 % 10000>>, den |-> p[2]]

\* [1.0, 1.0, 2.0, 6.0, 24.0], indexed from 0 in the source
FactTableBad == <<1, 1, 2, 6, 12>>
FactTable == <<1, 1, 2, 6, 24>>

\* for k in 0..iexpo { ictmp[iccount + k] = j + 1 }: a write past the 4 slots of
\* ictmp is an index-out-of-bounds panic
RECURSIVE FillSlotsTruncating(_, _, _, _, _)
FillSlotsTruncating(ictmp, iccount, iexpo, j, k) ==
    IF k >= iexpo THEN [ok |-> TRUE, ictmp |-> ictmp]
    ELSE IF iccount + k >= 4 THEN [ok |-> TRUE, ictmp |-> ictmp]
    ELSE FillSlotsTruncating([ictmp EXCEPT ![iccount + k + 1] = j], iccount, iexpo, j, k + 1)

RECURSIVE FillSlots(_, _, _, _, _)
FillSlots(ictmp, iccount, iexpo, j, k) ==
    IF k >= iexpo THEN [ok |-> TRUE, ictmp |-> ictmp]
    ELSE IF iccount + k >= 4 THEN [ok |-> FALSE, ictmp |-> ictmp]
    ELSE FillSlots([ictmp EXCEPT ![iccount + k + 1] = j], iccount, iexpo, j, k + 1)

\* for j in (0..c).rev() { ... } of column i, from variable j down to the first;
\* st = [ifact, ictmp, iccount].  The table lookup [..][iexpo as usize] panics
\* for iexpo > 4 and for iexpo < 0 (which wraps to a huge usize).
RECURSIVE VarLoop(_, _, _, _)
VarLoop(exps, i, j, st) ==
    IF j = 0 THEN [ok |-> TRUE, st |-> st]
    ELSE LET iexpo == exps[j][i]
         IN  IF iexpo < 0 \/ iexpo > 4 THEN [ok |-> FALSE, st |-> st]
             ELSE LET ifact == st.ifact * FactTable[iexpo + 1]
                      fill == IF iexpo > 0
                              THEN FillSlots(st.ictmp, st.iccount, iexpo, j, 0)
                              ELSE [ok |-> TRUE, ictmp |-> st.ictmp]
                      count == IF iexpo > 0 THEN st.iccount + iexpo ELSE st.iccount
                  IN  IF ~fill.ok THEN [ok |-> FALSE, st |-> st]
                      ELSE VarLoop(exps, i, j - 1,
                                   [ifact |-> ifact, ictmp |-> fill.ictmp, iccount |-> count])

\* One pass of the outer loop: the Fc of column i, or a panic
FcOfColumn(exps, cs, i) ==
    LET r == VarLoop(exps, i, NRows(exps), [ifact |-> 1, ictmp |-> <<0, 0, 0, 0>>, iccount |-> 0])
    IN  IF ~r.ok THEN [ok |-> FALSE]
        ELSE [ok |-> TRUE,
              fc |-> r.st.ictmp \o <<TimesFAC(RMul(cs[i], R(r.st.ifact)))>>]

\* for i in 0..r { ...; ret.push(Fc(a, b, c, d, ffcc)) }; ret
RECURSIVE ColLoop(_, _, _, _)
ColLoop(exps, cs, i, ret) ==
    IF i > NCols(exps) THEN [ok |-> TRUE, fcs |-> ret]
    ELSE LET f == FcOfColumn(exps, cs, i)
         IN  IF ~f.ok THEN [ok |-> FALSE, fcs |-> <<>>]
             ELSE ColLoop(exps, cs, i + 1, Append(ret, f.fc))

make9903(a, cs) == ColLoop(a.exponents, cs, 1, <<>>)

-----------------------------------------------------------------------------
(* Specification SpecFc: make9903 on every small basis *)

MaxExp == 5
FcShapes == {<<3, 1>>, <<2, 2>>}
FcCoefs == {R(-30), RZero, <<5, 2>>}

InitFc ==
    /\ \E sh \in FcShapes :
         /\ \E e \in Matrices(sh[1], sh[2], (-1)..MaxExp) :
              anpass = [NoAnpass EXCEPT !.exponents = e]
         /\ coeffs \in [1..sh[2] -> FcCoefs]
    /\ x = <<>> /\ it = 0 /\ delta = <<>>
    /\ pc = "make9903" /\ out = [kind |-> "none"]
    /\ files = NoFiles /\ text = <<>> /\ ld = NoLoad /\ rn = NoRun

Make9903 ==
    /\ pc = "make9903"
    /\ LET r == make9903(anpass, coeffs)
       IN  IF r.ok
           THEN pc' = "returned" /\ out' = [kind |-> "fcs", fcs |-> r.fcs]
           ELSE pc' = "panicked" /\ out' = [kind |-> "panic", msg |-> "index out of bounds"]
    /\ UNCHANGED <<anpass, coeffs, x, it, delta, files, text, ld, rn>>

NextFc == Make9903

SpecFc == InitFc /\ [][NextFc]_vars

(* Properties of make9903, stated independently of its loops *)

RECURSIVE Factorial(_)
Factorial(n) == IF n <= 0 THEN 1 ELSE n * Factorial(n - 1)

RECURSIVE Repeat(_, _)
Repeat(v, n) == IF n <= 0 THEN <<>> ELSE <<v>> \o Repeat(v, n - 1)

\* The indices of column k from variable i down to variable 1, each repeated
\* basis[i, k] times
RECURSIVE Descending(_, _, _)
Descending(exps, k, i) ==
    IF i = 0 THEN <<>> ELSE Repeat(i, exps[i][k]) \o Descending(exps, k, i - 1)

RECURSIVE FactorialProduct(_, _, _)
FactorialProduct(exps, k, i) ==
    IF i = 0 THEN 1 ELSE Factorial(exps[i][k]) * FactorialProduct(exps, k, i - 1)

ColumnTotal(exps, k) == SumTo(Column(exps, k), NRows(exps))

InContract(exps) ==
    \A k \in 1..NCols(exps) :
        /\ \A i \in 1..NRows(exps) : exps[i][k] \in 0..4
        /\ ColumnTotal(exps, k) <= 4

OverFour(exps) ==
    \E k \in 1..NCols(exps) :
        \/ \E i \in 1..NRows(exps) : exps[i][k] > 4
        \/ ColumnTotal(exps, k) > 4

ExpectedFc(exps, cs, k) ==
    LET idx == Descending(exps, k, NRows(exps))
    IN  idx \o Repeat(0, 4 - Len(idx))
            \o <<TimesFAC(RMul(cs[k], R(FactorialProduct(exps, k, NRows(exps)))))>>

\* C1: for a basis whose columns have entries in 0..4 and total exponent <= 4,
\* make9903 returns one record per column, in column order, record k holding the
\* variable indices in descending order, each repeated basis[i,k] times, padded
\* with 0 to 4 slots, and the value coeffs[k] * prod_i basis[i,k]! * 4.359813653.
C1_Make9903Records ==
    (pc # "make9903" /\ InContract(anpass.exponents)) =>
        /\ pc = "returned"
        /\ out.kind = "fcs"
        /\ Len(out.fcs) = NCols(anpass.exponents)
        /\ \A k \in 1..NCols(anpass.exponents) :
               out.fcs[k] = ExpectedFc(anpass.exponents, coeffs, k)

C1_Witness ==
    /\ pc = "returned"
    /\ NCols(anpass.exponents) = 2
    /\ out.fcs[1][1] = 2 /\ out.fcs[1][2] = 2 /\ out.fcs[1][3] = 1 /\ out.fcs[1][4] = 0
    /\ out.fcs[1][5].sign # 0
    /\ out.fcs[2][1] = 2 /\ out.fcs[2][2] = 1 /\ out.fcs[2][3] = 1 /\ out.fcs[2][4] = 1

\* C2: for a basis with a column holding an exponent > 4 or a total exponent > 4,
\* make9903 aborts and returns no record list.
C2_OverFourFails ==
    (pc # "make9903" /\ OverFour(anpass.exponents)) =>
        /\ pc = "panicked"
        /\ out.kind = "panic"

C2_Witness ==
    /\ pc = "panicked"
    /\ \E k \in 1..NCols(anpass.exponents) :
           /\ \A i \in 1..NRows(anpass.exponents) : anpass.exponents[i][k] \in 0..4
           /\ ColumnTotal(anpass.exponents, k) = 5
    /\ \E k \in 1..NCols(anpass.exponents) : ColumnTotal(anpass.exponents, k) <= 4
           /\ \A i \in 1..NRows(anpass.exponents) : anpass.exponents[i][k] \in 0..4

-----------------------------------------------------------------------------
(* bias (lib.rs:367-382) *)

\* self.disps.row(r).transpose() - bias.disp
BiasedRow(a, b, r) == [c \in 1..NCols(a.disps) |-> RSub(a.disps[r][c], b.disp[c])]

\* bias that forgets to subtract the energy
BiasedEnergyKept(a, b, r) == a.energies[r]

\* self.energies[r] - bias.energy
BiasedEnergy(a, b, r) == RSub(a.energies[r], b.energy)

\* Self { disps, energies, ..self.clone() }: exponents and the old bias are kept
Biased(a, b) ==
    [disps |-> [r \in 1..NRows(a.disps) |-> BiasedRow(a, b, r)],
     energies |-> [r \in 1..NRows(a.disps) |-> BiasedEnergy(a, b, r)],
     exponents |-> a.exponents,
     bias |-> a.bias]

\* The subtraction of vectors of different lengths and the index into a
\* shorter energies vector panic, in the first pass of the loop
bias(a, b) ==
    IF NRows(a.disps) = 0
    THEN [kind |-> "anpass", anpass |-> [a EXCEPT !.energies = <<>>]]
    ELSE IF Len(b.disp) # NCols(a.disps)
    THEN [kind |-> "panic", msg |-> "dimension mismatch"]
    ELSE IF Len(a.energies) < NRows(a.disps)
    THEN [kind |-> "panic", msg |-> "index out of bounds"]
    ELSE [kind |-> "anpass", anpass |-> Biased(a, b)]

-----------------------------------------------------------------------------
(* Specification SpecBias: one call of bias *)

MaxRows == 2
MaxCols == 2
BiasVals == {R(-3), <<1, 2>>}
BiasExps(nc) == [i \in 1..nc |-> <<1, 2>>]
OldBiases(nc) == {NoBias, [some |-> TRUE, disp |-> [i \in 1..nc |-> ROne], energy |-> R(7)]}

InitBias ==
    /\ \E nr \in 1..MaxRows, nc \in 1..MaxCols :
         \E d \in Matrices(nr, nc, BiasVals),
            en \in [1..nr -> BiasVals] \cup {<<>>},
            old \in OldBiases(nc) :
              anpass = [disps |-> d, energies |-> en,
                        exponents |-> BiasExps(nc), bias |-> old]
    /\ coeffs = <<>> /\ x = <<>> /\ it = 0 /\ delta = <<>>
    /\ pc = "bias" /\ out = [kind |-> "none"]
    /\ files = NoFiles /\ text = <<>> /\ ld = NoLoad /\ rn = NoRun

\* anpass.bias(&b): the argument is kept beside the result
BiasCall(b, res) ==
    /\ pc' = IF res.kind = "panic" THEN "panicked" ELSE "returned"
    /\ out' = IF res.kind = "panic" THEN [kind |-> "panic", msg |-> res.msg, arg |-> b]
              ELSE [kind |-> "anpass", anpass |-> res.anpass, arg |-> b]
    /\ UNCHANGED <<anpass, coeffs, x, it, delta, files, text, ld, rn>>

Bias ==
    /\ pc = "bias"
    /\ \E n \in 1..MaxCols, e \in BiasVals :
         \E d \in [1..n -> BiasVals] :
            BiasCall([disp |-> d, energy |-> e], bias(anpass, [disp |-> d, energy |-> e]))

NextBias == Bias

SpecBias == InitBias /\ [][NextBias]_vars

\* The call is within the contract of bias: an energy for every row, and a
\* bias displacement of the width of the rows
BiasArgFits(b) ==
    /\ Len(anpass.energies) = NRows(anpass.disps)
    /\ Len(b.disp) = NCols(anpass.disps)

C7_Effect ==
    pc \in {"returned", "panicked"} =>
        /\ BiasArgFits(out.arg) => out.kind = "anpass"
        /\ out.kind = "anpass" =>
              /\ NRows(out.anpass.disps) = NRows(anpass.disps)
              /\ NCols(out.anpass.disps) = NCols(anpass.disps)
              /\ Len(out.anpass.energies) = NRows(anpass.disps)
              /\ \A r \in 1..NRows(anpass.disps) :
                    /\ \A c \in 1..NCols(anpass.disps) :
                          RAdd(out.anpass.disps[r][c], out.arg.disp[c]) = anpass.disps[r][c]
                    /\ RAdd(out.anpass.energies[r], out.arg.energy) = anpass.energies[r]
              /\ out.anpass.exponents = anpass.exponents

\* C7: bias(B) returns a new Anpass of the same shape whose row r is the
\* original row r minus B.disp and whose energy r is the original energy r
\* minus B.energy, with the exponents of the original; the original is left
\* as it was.
C7_BiasFrameEffect == []C7_Effect /\ [][anpass' = anpass]_vars

C7_Witness ==
    /\ pc = "returned" /\ out.kind = "anpass"
    /\ NRows(anpass.disps) = 2 /\ NCols(anpass.disps) = 2
    /\ out.arg.disp = <<R(-3), <<1, 2>>>> /\ out.arg.energy = <<1, 2>>
    /\ out.anpass.disps # anpass.disps
    /\ out.anpass.energies # anpass.energies

-----------------------------------------------------------------------------
(* fit (lib.rs:178-197) *)

\* x[(i, k)] *= self.disps[(i, j)].powi(self.exponents[(j, k)]), j = 0..ncols
RECURSIVE DesignEntry(_, _, _, _)
DesignEntry(a, i, k, j) ==
    IF j = 0 THEN ROne
    ELSE RMul(DesignEntry(a, i, k, j - 1), Powi(a.disps[i][j], a.exponents[j][k]))

\* the matrix x of lib.rs:181-189
Design(a) ==
    [i \in 1..NRows(a.disps) |->
        [k \in 1..NCols(a.exponents) |-> DesignEntry(a, i, k, NCols(a.disps))]]

Transpose(m, nc) == [k \in 1..nc |-> [i \in 1..Len(m) |-> m[i][k]]]

\* x.transpose() * &x, from the rows of x.transpose()
XtX(xt) == [k \in 1..Len(xt) |-> [l \in 1..Len(xt) |-> Dot(xt[k], xt[l])]]

\* inv * x.transpose()
TimesXt(inv, xt, nd) ==
    [k \in 1..Len(inv) |-> [i \in 1..nd |-> Dot(inv[k], [l \in 1..Len(xt) |-> xt[l][i]])]]

MatVec(m, v) == [i \in 1..Len(m) |-> Dot(m[i], v)]

\* Cholesky::new(xtx).expect(..); inv * x.transpose(); a * &self.energies: the
\* product panics when energies has not one entry for each row of disps
FitSolve(a, xt, chol) ==
    IF ~chol.ok THEN [ok |-> FALSE, msg |-> "Cholesky decomposition failed in fit"]
    ELSE IF Len(a.energies) # NRows(a.disps)
    THEN [ok |-> FALSE, msg |-> "dimension mismatch"]
    ELSE [ok |-> TRUE, f |-> MatVec(TimesXt(chol.inv, xt, NRows(a.disps)), a.energies)]

FitWith(a, xt) == FitSolve(a, xt, CholeskyNew(XtX(xt)))

fit(a) == FitWith(a, Transpose(Design(a), NCols(a.exponents)))

-----------------------------------------------------------------------------
(* Specification SpecRun: the pipeline of run (lib.rs:418-430) and of main  *)
(* (main.rs:10-27), one stage per step                                      *)

\* Bases: x, x^2, x^3; 1, x, x^2, x^3; x^2, x^5; and x^2, y^2, x*y
CubicExps == << <<1, 2, 3>> >>
ConstCubicExps == << <<0, 1, 2, 3>> >>
QuinticExps == << <<2, 5>> >>
TwoVarExps == << <<2, 0, 1>>, <<0, 2, 1>> >>

\* Displacement grids
Grid(points) == [i \in 1..Len(points) |-> <<R(points[i])>>]
TwoVarGrid == << <<ROne, RZero>>, <<RZero, ROne>>, <<ROne, ROne>>, <<R(-1), ROne>> >>

\* Datasets <<exponents, disps, c>> whose energies are those of the polynomial
\* with coefficients c on the basis, so that the fit is exact
RunCases ==
    {<<CubicExps, Grid(g), c>> :
        g \in {<<-2, -1, 1, 2>>, <<-2, 1, 2>>, <<0>>},
        c \in {<<R(40), R(10), R(-10)>>, <<R(-40), R(10), RZero>>,
               <<R(10), R(-10), RZero>>, <<RZero, R(10), R(10)>>}}
    \cup {<<ConstCubicExps, Grid(g), c>> :
        g \in {<<-2, -1, 1, 2>>, <<-2, -1, 0, 1, 2>>},
        c \in {<<R(50), R(40), R(10), R(-10)>>, <<R(-20), R(-40), R(10), RZero>>,
               <<R(30), R(10), R(-10), RZero>>}}
    \cup {<<QuinticExps, Grid(g), c>> :
        g \in {<<-2, -1, 1, 2>>, <<1, 2>>},
        c \in {<<R(10), RZero>>, <<R(10), R(10)>>}}
    \cup {<<TwoVarExps, TwoVarGrid, c>> :
        c \in {<<R(10), R(10), RZero>>, <<R(10), R(10), R(10)>>,
               <<R(-10), R(10), RZero>>}}

Dataset(exps, d, en) == [disps |-> d, energies |-> en, exponents |-> exps, bias |-> NoBias]

InitRun ==
    /\ \E c \in RunCases, withEnergies \in BOOLEAN :
         anpass = Dataset(c[1], c[2],
                          IF withEnergies
                          THEN MatVec(Design(Dataset(c[1], c[2], <<>>)), c[3])
                          ELSE <<>>)
    /\ coeffs = <<>> /\ x = <<>> /\ it = 0 /\ delta = <<>>
    /\ pc = "fit" /\ out = [kind |-> "none"]
    /\ files = NoFiles /\ text = <<>> /\ ld = NoLoad /\ rn = NoRun

\* a stage panicked: the thread unwinds, no later stage runs
Fails(stage, msg) ==
    /\ pc' = "panicked"
    /\ out' = [kind |-> "panic", msg |-> msg, stage |-> stage]

\* let (coeffs, _) = anpass.fit();
FitStage(r) ==
    /\ IF r.ok THEN pc' = "newton" /\ coeffs' = r.f /\ out' = out
       ELSE Fails("fit", r.msg) /\ coeffs' = coeffs
    /\ UNCHANGED <<anpass, x, it, delta, files, text, ld, rn>>

RunFit == pc = "fit" /\ FitStage(fit(anpass))

\* let (x, _) = anpass.newton(&coeffs);
NewtonStage(r) ==
    /\ IF r.kind = "point" THEN pc' = "eval" /\ x' = r.x /\ out' = out
       ELSE Fails("newton", r.msg) /\ x' = x
    /\ files' = [files EXCEPT !.bad = r.bad]
    /\ UNCHANGED <<anpass, coeffs, it, delta, text, ld, rn>>

RunNewton == pc = "newton" /\ NewtonStage(newton(anpass, coeffs))

\* let e = anpass.eval(&x, &coeffs);
RunEval ==
    /\ pc = "eval"
    /\ rn' = [rn EXCEPT !.e = eval(anpass, x, coeffs)]
    /\ pc' = "bias"
    /\ UNCHANGED <<anpass, coeffs, x, it, delta, out, files, text, ld>>

\* let anpass = anpass.bias(&Bias { disp: x, energy: e });
BiasStage(r) ==
    /\ IF r.kind = "anpass" THEN pc' = "refit" /\ rn' = [rn EXCEPT !.anpass = r.anpass] /\ out' = out
       ELSE Fails("bias", r.msg) /\ rn' = rn
    /\ UNCHANGED <<anpass, coeffs, x, it, delta, files, text, ld>>

RunBias == pc = "bias" /\ BiasStage(bias(anpass, [disp |-> x, energy |-> rn.e]))

\* let (coeffs, _) = anpass.fit(); on the recentred anpass
RefitStage(r) ==
    /\ IF r.ok THEN pc' = "extract" /\ rn' = [rn EXCEPT !.coeffs = r.f] /\ out' = out
       ELSE Fails("refit", r.msg) /\ rn' = rn
    /\ UNCHANGED <<anpass, coeffs, x, it, delta, files, text, ld>>

RunRefit == pc = "refit" /\ RefitStage(fit(rn.anpass))

\* the coefficients make9903 is handed: the second `coeffs` shadows the first
ExtractCoeffsFirst(first, refit) == first
ExtractCoeffs(first, refit) == refit

\* (anpass.make9903(&coeffs), bias): what run returns
ExtractStage(r) ==
    /\ IF r.ok
       THEN /\ pc' = "create"
            /\ out' = [kind |-> "run", fcs |-> r.fcs, bias |-> [disp |-> x, energy |-> rn.e]]
       ELSE Fails("extract", "index out of bounds")
    /\ UNCHANGED <<anpass, coeffs, x, it, delta, files, text, ld, rn>>

RunExtract ==
    pc = "extract" /\ ExtractStage(make9903(rn.anpass, ExtractCoeffs(coeffs, rn.coeffs)))

\* File::create("fort.9903"), which the file system may refuse (main.rs:22-26)
RunCreate ==
    /\ pc = "create"
    /\ \E created \in BOOLEAN :
         IF created
         THEN /\ pc' = "write" /\ out' = out
              /\ files' = [files EXCEPT !.fort9903 =
                               [exists |-> TRUE, lines |-> <<>>, complete |-> FALSE]]
         ELSE Fails("create", "failed to create fort.9903") /\ files' = files
    /\ UNCHANGED <<anpass, coeffs, x, it, delta, text, ld, rn>>

\* write9903: an empty line, then a line for each Fc (lib.rs:408-413)
write9903(fcs) == <<"">> \o fcs

RunWrite ==
    /\ pc = "write"
    /\ files' = [files EXCEPT !.fort9903 =
                     [exists |-> TRUE, lines |-> write9903(out.fcs), complete |-> TRUE]]
    /\ pc' = "done"
    /\ UNCHANGED <<anpass, coeffs, x, it, delta, out, text, ld, rn>>

NextRun ==
    \/ RunFit \/ RunNewton \/ RunEval \/ RunBias
    \/ RunRefit \/ RunExtract \/ RunCreate \/ RunWrite

SpecRun == InitRun /\ [][NextRun]_vars

RunStages == {"fit", "newton", "eval", "bias", "refit", "extract"}

\* The order of the positions of run and main
RunOrder ==
    {<<"fit", "newton">>, <<"newton", "eval">>, <<"eval", "bias">>,
     <<"bias", "refit">>, <<"refit", "extract">>, <<"extract", "create">>,
     <<"create", "write">>, <<"write", "done">>}

\* Each step takes the next stage in order or ends the run in a panic, and
\* nothing follows a panic
C8_Order ==
    /\ pc # "panicked"
    /\ \/ <<pc, pc'>> \in RunOrder
       \/ pc' = "panicked" /\ out'.stage \in RunStages \cup {"create"}

\* What run has returned once the six stages are through
C8_Flow ==
    pc \in {"create", "write", "done"} =>
        /\ out.kind = "run"
        /\ coeffs = fit(anpass).f
        /\ out.bias.disp = newton(anpass, coeffs).x
        /\ out.bias.energy = eval(anpass, out.bias.disp, coeffs)
        /\ rn.anpass = bias(anpass, out.bias).anpass
        /\ rn.coeffs = fit(rn.anpass).f
        /\ out.fcs = make9903(rn.anpass, rn.coeffs).fcs

\* A failed stage leaves no force constants and no fort.9903
C8_Failure ==
    (pc = "panicked" /\ out.stage \in RunStages) =>
        /\ DOMAIN out = {"kind", "msg", "stage"}
        /\ ~files.fort9903.exists

\* C8: the stages run in the order fit, newton, eval, bias, refit, extract; the
\* bias point run returns is (newton's point, eval of the first fit's
\* coefficients there), the force constants are those of the refit of the
\* recentred dataset; a stage that fails ends the run with no force constants,
\* nothing is retried, and fort.9903 is not created.
C8_PipelineOrder == [](C8_Flow /\ C8_Failure) /\ [][C8_Order]_vars

\* A run through all stages whose stationary point is not the origin, so that
\* the refit differs from the first fit
C8_Witness ==
    /\ pc = "done"
    /\ out.bias.disp = <<R(-1)>> /\ out.bias.energy = R(30)
    /\ rn.coeffs # coeffs
    /\ files.fort9903.exists /\ Len(files.fort9903.lines) = 5

\* A run that ended in its refit or its extraction
C8_FailureWitness ==
    /\ pc = "panicked" /\ out.stage \in {"refit", "extract"}

-----------------------------------------------------------------------------
(* load (lib.rs:87-168), line by line *)

\* A line like (3F12.8,f20.12), which the regex `start` matches
FormatLine(n) == [kind |-> "format", n |-> n]

\* line.split_whitespace(): a field written with no blank before it runs into
\* the field before, and the two make one word that is no number
Junk == [kind |-> "junk", val |-> RZero]

RECURSIVE SplitWhitespace(_, _, _)
SplitWhitespace(toks, i, words) ==
    IF i > Len(toks) THEN words
    ELSE IF toks[i].glued /\ words # <<>>
    THEN SplitWhitespace(toks, i + 1, [words EXCEPT ![Len(words)] = Junk])
    ELSE SplitWhitespace(toks, i + 1,
                         Append(words, [kind |-> toks[i].kind, val |-> toks[i].val]))

\* The words of a line; those of a line of text are no numbers
Words(line) == IF line.kind = "data" THEN SplitWhitespace(line.toks, 1, <<>>) ELSE <<>>

IsF64(w) == w.kind \in {"dec", "int"}
IsI32(w) == w.kind = "int"
ValueOf(ws) == [i \in 1..Len(ws) |-> ws[i].val]
IntOf(ws) == [i \in 1..Len(ws) |-> ws[i].val[1]]

\* .flat_map(|s| s.parse::<f64>()) and .flat_map(|s| s.parse::<i32>()): what
\* does not parse is dropped
ParseF64(line) == ValueOf(SelectSeq(Words(line), IsF64))
ParseI32(line) == IntOf(SelectSeq(Words(line), IsI32))

Contains(line, str) == line.kind = "text" /\ line.s = str

\* let mut state = None; ... let mut bias = None (lib.rs:95-111)
LoadStart ==
    [state |-> "None", ndisp_fields |-> 0, disps |-> <<>>, ndisps |-> 0,
     energies |-> <<>>, nunk |-> 0, exponents |-> <<>>, bias |-> NoBias,
     ok |-> TRUE, msg |-> ""]

LoadPanic(l, msg) == [l EXCEPT !.ok = FALSE, !.msg = msg]

\* state == Disp (lib.rs:123-137).  f.len() - 1 on a line with no number
\* underflows: a panic in a build with overflow checks, and a wrap to
\* usize::MAX in one without, where the line then counts as a row of no fields
LoadDisp(l, f, wraps) ==
    IF Len(f) = 0
    THEN IF wraps THEN [l EXCEPT !.ndisps = @ + 1]
         ELSE LoadPanic(l, "attempt to subtract with overflow")
    ELSE IF Len(f) - 1 = l.ndisp_fields
    THEN [l EXCEPT !.disps = @ \o SubSeq(f, 1, Len(f) - 1),
                   !.energies = Append(@, f[Len(f)]),
                   !.ndisps = @ + 1]
    ELSE [l EXCEPT !.disps = @ \o f, !.ndisps = @ + 1]

\* state == Unks: nunk = line.trim().parse().unwrap() (lib.rs:138-140)
LoadUnks(l, line) ==
    IF /\ line.kind = "data" /\ Len(line.toks) = 1
       /\ line.toks[1].kind = "int" /\ line.toks[1].val[1] >= 0
    THEN [l EXCEPT !.nunk = line.toks[1].val[1], !.state = "Exps"]
    ELSE LoadPanic(l, "called Result::unwrap() on an Err value")

\* state == Stat (lib.rs:145-155)
LoadStat(l, f) ==
    IF Len(f) = 0 THEN LoadPanic(l, "attempt to subtract with overflow")
    ELSE [l EXCEPT !.bias = [some |-> TRUE, disp |-> SubSeq(f, 1, Len(f) - 1),
                             energy |-> f[Len(f)]],
                   !.state = "None"]

\* The body of `for line in lines` (lib.rs:113-156)
LoadLine(l, line, wraps) ==
    IF line.kind = "format" THEN [l EXCEPT !.ndisp_fields = line.n, !.state = "Disp"]
    ELSE IF Contains(line, "UNKNOWNS") THEN [l EXCEPT !.state = "Unks"]
    ELSE IF Contains(line, "STATIONARY POINT") THEN [l EXCEPT !.state = "Stat"]
    ELSE IF l.state = "Disp" THEN LoadDisp(l, ParseF64(line), wraps)
    ELSE IF l.state = "Unks" THEN LoadUnks(l, line)
    ELSE IF l.state = "Exps" THEN [l EXCEPT !.exponents = @ \o ParseI32(line)]
    ELSE IF l.state = "Stat" THEN LoadStat(l, ParseF64(line))
    ELSE l

\* from_row_slice(nr, nc, flat)
FromRowSlice(nr, nc, flat) ==
    [i \in 1..nr |-> [j \in 1..nc |-> flat[(i - 1) * nc + j]]]

\* Self { disps: from_row_slice(ndisps, ndisp_fields, &disps), ... }
\* (lib.rs:158-167): from_row_slice panics on a slice of another length, and
\* exponents.len() / nunk on nunk = 0
LoadEnd(l) ==
    IF Len(l.disps) # l.ndisps * l.ndisp_fields
    THEN [kind |-> "panic", msg |-> "Matrix init. error"]
    ELSE IF l.nunk = 0
    THEN [kind |-> "panic", msg |-> "attempt to divide by zero"]
    ELSE IF (Len(l.exponents) \div l.nunk) * l.nunk # Len(l.exponents)
    THEN [kind |-> "panic", msg |-> "Matrix init. error"]
    ELSE [kind |-> "anpass",
          anpass |-> [disps |-> FromRowSlice(l.ndisps, l.ndisp_fields, l.disps),
                      energies |-> l.energies,
                      exponents |-> FromRowSlice(Len(l.exponents) \div l.nunk, l.nunk,
                                                 l.exponents),
                      bias |-> l.bias]]

-----------------------------------------------------------------------------
(* Specification SpecIO: an Anpass is written with Display and the text is   *)
(* read back by load                                                        *)

\* Shapes <<rows, columns>> of disps; displacements 0.5, 1/3, 100 and energies
\* 5e-10, 1.25e-11
IOShapes == {<<1, 1>>, <<1, 2>>, <<2, 1>>, <<2, 2>>}
IODisps == {RHalf, <<1, 3>>, R(100)}
IOEnergies == {R(50), <<5, 4>>}
IOExps(nc) == IF nc = 1 THEN << <<1, 2>> >> ELSE << <<2, 0, 1>>, <<0, 2, 1>> >>

InitIO ==
    /\ \E sh \in IOShapes :
         \E d \in Matrices(sh[1], sh[2], IODisps),
            en \in [1..sh[1] -> IOEnergies] \cup {<<>>} :
              anpass = Dataset(IOExps(sh[2]), d, en)
    /\ coeffs = <<>> /\ x = <<>> /\ it = 0 /\ delta = <<>>
    /\ pc = "display" /\ out = [kind |-> "none"]
    /\ files = NoFiles /\ text = <<>> /\ ld = NoLoad /\ rn = NoRun

\* write!(f, "{}", anpass)
Written(w) ==
    /\ text' = w.lines
    /\ IF w.ok THEN pc' = "written" /\ out' = [kind |-> "text", edited |-> FALSE]
       ELSE pc' = "panicked" /\ out' = [kind |-> "panic", msg |-> "index out of bounds"]
    /\ UNCHANGED <<anpass, coeffs, x, it, delta, files, ld, rn>>

WriteDisplay == pc = "display" /\ Written(Display(anpass))

\* Someone puts the format line load waits for at the head of the text
AddFormatLine ==
    /\ pc = "written" /\ ~out.edited
    /\ text' = <<FormatLine(NCols(anpass.disps))>> \o text
    /\ out' = [out EXCEPT !.edited = TRUE]
    /\ UNCHANGED <<anpass, coeffs, x, it, delta, pc, files, ld, rn>>

\* Anpass::load is called on the text
LoadOpen ==
    /\ pc = "written"
    /\ pc' = "load" /\ ld' = LoadStart
    /\ UNCHANGED <<anpass, coeffs, x, it, delta, out, files, text, rn>>

\* one pass of `for line in lines`
LoadedLine(l) ==
    /\ ld' = l
    /\ text' = Tail(text)
    /\ IF l.ok THEN pc' = pc /\ out' = out
       ELSE pc' = "panicked" /\ out' = [kind |-> "panic", msg |-> l.msg, edited |-> out.edited]
    /\ UNCHANGED <<anpass, coeffs, x, it, delta, files, rn>>

LoadNextLine ==
    /\ pc = "load" /\ text # <<>>
    /\ \E wraps \in BOOLEAN : LoadedLine(LoadLine(ld, Head(text), wraps))

\* the lines are through: load returns Self { .. }
Loaded(r) ==
    /\ pc' = IF r.kind = "panic" THEN "panicked" ELSE "returned"
    /\ out' = IF r.kind = "panic"
              THEN [kind |-> "panic", msg |-> r.msg, edited |-> out.edited]
              ELSE [kind |-> "anpass", anpass |-> r.anpass, edited |-> out.edited]
    /\ UNCHANGED <<anpass, coeffs, x, it, delta, files, text, ld, rn>>

LoadReturn == pc = "load" /\ text = <<>> /\ Loaded(LoadEnd(ld))

NextIO == WriteDisplay \/ AddFormatLine \/ LoadOpen \/ LoadNextLine \/ LoadReturn

SpecIO == InitIO /\ [][NextIO]_vars

\* |a - b| <= 1e-12 for displacements, <= 1e-11 (one unit) for energies
CloseDisp(a, b) == RLeSmall(RAbs(RSub(a, b)), 1, 1000000, 1000000)
CloseEnergy(a, b) == RLe(RAbs(RSub(a, b)), ROne)

SameDisps(p, q) ==
    /\ NRows(p) = NRows(q) /\ NCols(p) = NCols(q)
    /\ \A i \in 1..NRows(p) : \A j \in 1..NCols(p) : CloseDisp(p[i][j], q[i][j])

SameEnergies(p, q) ==
    /\ Len(p) = Len(q)
    /\ \A i \in 1..Len(p) : CloseEnergy(p[i], q[i])

\* load has ended, on the text exactly as Display wrote it
ReadBack == pc \in {"returned", "panicked"} /\ "edited" \in DOMAIN out /\ ~out.edited

\* C9: an Anpass with energies, written with Display and read back with load,
\* comes back with displacements within 1e-12, energies within 1e-11 and the
\* same exponents.
C9_RoundTrip ==
    ReadBack =>
        /\ out.kind = "anpass"
        /\ SameDisps(out.anpass.disps, anpass.disps)
        /\ SameEnergies(out.anpass.energies, anpass.energies)
        /\ out.anpass.exponents = anpass.exponents

\* What does come back from the text as written: no displacement and no
\* energy at all, and the exponents
C9_ComesBackEmpty ==
    ReadBack =>
        /\ out.kind = "anpass"
        /\ out.anpass.disps = <<>> /\ out.anpass.energies = <<>>
        /\ out.anpass.exponents = anpass.exponents

\* The same round trip with the format line put in.  It does not hold either:
\* the rows come back as they were printed, to 8 decimals, so 1/3 comes back
\* as 0.33333333, and a displacement of 100 runs into the field before it.
C9_WithFormatLine ==
    (pc = "returned" /\ out.edited) =>
        /\ SameDisps(out.anpass.disps, anpass.disps)
        /\ SameEnergies(out.anpass.energies, anpass.energies)

====
